---- MODULE Spec2Model ----
(***************************************************************************)
(* A model of linux_encrypter.py: the path-keyed file encryption engine    *)
(* (CryptoEngine), the selection policy (should_encrypt), the walker       *)
(* (process_filesystem) and the two entry points (lock_system,             *)
(* unlock_system).                                                         *)
(*                                                                         *)
(* A path is a sequence of tokens: directory and file components ("/home", *)
(* "/a") followed by the suffixes the code appends (".enc", ".dec"), so    *)
(* that path + '.enc', endswith and startswith are computed.  A file is a  *)
(* sequence of bytes (0..255).  The filesystem maps each existing regular  *)
(* file to its bytes.                                                      *)
(***************************************************************************)
EXTENDS Integers, Sequences, FiniteSets, TLC

VARIABLES
    fs,          \* the regular files: [existing path -> bytes]
    dirs,        \* the root directories that exist
    pc,          \* position of the running process ("off": none started yet)
    kind,        \* "main": the script run as a program; "client": a caller of CryptoEngine
    argv,        \* sys.argv[1:]
    status,      \* exit status of the last terminated process
    roots_left,  \* roots the for loop of lock_system / unlock_system has not reached
    todo,        \* paths os.walk has yet to yield for the current root
    master_key,  \* CryptoEngine.master_key
    key_cache,   \* CryptoEngine.key_cache: [path -> derived key]
    cur,         \* the path argument of the running encrypt_file / decrypt_file
    buf,         \* locals of the running transform (data, nonce, tag, ciphertext)
    log,         \* the events this process handed to logging, in order
    log_linked,  \* the logging handler's open stream is the file at CONFIG['logfile']
    old,         \* the filesystem when the running (or last) transform was called
    last,        \* the last transform call that returned (see Returned)
    inits,       \* _init_keystore executions of the running process
    runs,        \* processes started so far
    calls,       \* transform calls the client process has made
    lost,        \* paths at which a process died between os.remove and os.rename
    faults,      \* I/O errors and kills the environment has caused so far
    start_fs,    \* the filesystem when the running process started
    ks           \* concurrent callers of _init_keystore: position, key generated, key returned

vars == <<fs, dirs, pc, kind, argv, status, roots_left, todo, master_key, key_cache,
          cur, buf, log, log_linked, old, last, inits, runs, calls, lost, faults, start_fs,
          ks>>

(***************************************************************************)
(* Bounds of the model.                                                    *)
(***************************************************************************)
MaxRuns == 2       \* processes started one after the other
MaxCalls == 2      \* transform calls the client processes make
NumKeys == 2       \* distinct 32-byte outputs of get_random_bytes
NumNonces == 1     \* distinct 12-byte outputs of get_random_bytes
MaxPlain == 1      \* length of the longest plaintext placed in the initial filesystem
MaxFaults == 1     \* I/O errors and kills the environment causes in one behaviour
NProcs == 3        \* processes calling _init_keystore concurrently

(***************************************************************************)
(* Program constants.                                                      *)
(***************************************************************************)
KeyLen == 32
NonceLen == 12
TagLen == 16

\* The sum of the first n bytes of s, each weighted by its position when w = 1.
RECURSIVE SumTo(_, _, _)
SumTo(s, n, w) == IF n = 0 THEN 0 ELSE (IF w = 1 THEN n ELSE 1) * s[n] + SumTo(s, n - 1, w)

SumSeq(s) == SumTo(s, Len(s), 0)
WeightedSum(s) == SumTo(s, Len(s), 1)

Min(a, b) == IF a < b THEN a ELSE b

\* f.read(n): at most n bytes;  the rest of the stream after it.
Take(s, n) == SubSeq(s, 1, Min(n, Len(s)))
Drop(s, n) == SubSeq(s, Min(n, Len(s)) + 1, Len(s))

(***************************************************************************)
(* CONFIG.                                                                 *)
(***************************************************************************)
Suffixes == {".enc", ".dec"}
KEYSTORE == <<"/etc", "/.cryptokeys">>
LOGFILE == <<"/var", "/log", "/autocrypt.log">>
\* CONFIG['exclude']: a directory prefix ends in '/', the keystore path does not.
EXCLUDE == { [prefix |-> <<"/proc">>, slash |-> TRUE], [prefix |-> <<"/sys">>, slash |-> TRUE],
             [prefix |-> <<"/dev">>, slash |-> TRUE], [prefix |-> <<"/run">>, slash |-> TRUE],
             [prefix |-> <<"/boot">>, slash |-> TRUE], [prefix |-> KEYSTORE, slash |-> FALSE] }
EXTENSIONS == {".enc"}
ROOTS == <<"/home", "/var", "/opt">>

Tokens == <<"/home", "/var", "/opt", "/etc", "/log", "/a", "/b", "/autocrypt.log",
            "/.cryptokeys", ".enc", ".dec">>
TokenCode(t) == CHOOSE i \in 1..Len(Tokens) : Tokens[i] = t

\* str.startswith / str.endswith / str + suffix on token paths.
StartsWith(path, ex) ==
    /\ Len(path) >= Len(ex.prefix)
    /\ SubSeq(path, 1, Len(ex.prefix)) = ex.prefix
    /\ ex.slash => /\ Len(path) > Len(ex.prefix)
                   /\ path[Len(ex.prefix) + 1] \notin Suffixes
EndsWith(path, suffix) == path /= <<>> /\ path[Len(path)] = suffix
Plus(path, suffix) == Append(path, suffix)

(***************************************************************************)
(* Randomness and the cryptographic primitives.  The primitives are total  *)
(* deterministic functions of their arguments with the lengths of the real *)
(* ones; get_random_bytes is a choice among NumKeys (NumNonces) outputs.   *)
(***************************************************************************)
get_random_bytes(n) ==
    { [i \in 1..n |-> (r * 37 + i) % 256] : r \in 1..(IF n = KeyLen THEN NumKeys ELSE NumNonces) }

SHA256(path) ==
    LET h == SumSeq([i \in 1..Len(path) |-> (i + 1) * TokenCode(path[i])])
    IN  [j \in 1..32 |-> (h * 5 + j) % 256]

KeyByte(key, i) == IF key = <<>> THEN 0 ELSE key[1 + ((i - 1) % Len(key))]

HMAC_SHA256(key, msg) == [j \in 1..32 |-> (KeyByte(key, j) + 3 * msg[j] + j) % 256]

KeyStream(key, nonce, i) == (KeyByte(key, i) + KeyByte(nonce, i) + i) % 256

GCM_tag(key, nonce, ct) ==
    [j \in 1..TagLen |-> (KeyByte(key, j) + SumSeq(nonce) + WeightedSum(ct) + Len(ct) + j) % 256]

GCM_encrypt(key, nonce, data) ==
    [i \in 1..Len(data) |-> (data[i] + KeyStream(key, nonce, i)) % 256]

GCM_decrypt(key, nonce, ct) ==
    [i \in 1..Len(ct) |-> (ct[i] + 256 - KeyStream(key, nonce, i)) % 256]

encrypt_and_digest(key, nonce, data) ==
    CHOOSE r \in { [ciphertext |-> ct, tag |-> GCM_tag(key, nonce, ct)] :
                       ct \in {GCM_encrypt(key, nonce, data)} } : TRUE

\* A decryption that does not compare the tag.
decrypt_without_verify(key, nonce, ct, tag) == [ok |-> TRUE, data |-> GCM_decrypt(key, nonce, ct)]

\* ok = FALSE is ValueError("MAC check failed").
decrypt_and_verify(key, nonce, ct, tag) ==
    IF tag = GCM_tag(key, nonce, ct)
    THEN [ok |-> TRUE, data |-> GCM_decrypt(key, nonce, ct)]
    ELSE [ok |-> FALSE, data |-> <<>>]

\* _derive_key without the cache.
DeriveKey(master, path) == CHOOSE k \in { HMAC_SHA256(master, h) : h \in {SHA256(path)} } : TRUE

\* _derive_key: the cached value when there is one.
derive_key(path) == IF path \in DOMAIN key_cache THEN key_cache[path] ELSE DeriveKey(master_key, path)

\* The container encrypt_file writes: nonce, tag, ciphertext.
Container(key, nonce, data) ==
    CHOOSE c \in { nonce \o r.tag \o r.ciphertext : r \in {encrypt_and_digest(key, nonce, data)} } : TRUE

(***************************************************************************)
(* The filesystem.                                                         *)
(***************************************************************************)
Exists(f, path) == path \in DOMAIN f
WriteFile(f, path, bytes) == [q \in DOMAIN f \cup {path} |-> IF q = path THEN bytes ELSE f[q]]
RemoveFile(f, path) == [q \in DOMAIN f \ {path} |-> f[q]]
RenameFile(f, src, dst) ==
    [q \in (DOMAIN f \ {src}) \cup {dst} |-> IF q = dst THEN f[src] ELSE f[q]]

\* The files os.walk(root) yields.
Under(path, root) == Len(path) >= 2 /\ path[1] = root /\ path[2] \notin Suffixes
Walk(f, root) == { p \in DOMAIN f : Under(p, root) }

should_encrypt(f, path) ==
    IF \E ex \in EXCLUDE : StartsWith(path, ex) THEN FALSE
    ELSE IF \E ex \in EXTENSIONS : EndsWith(path, ex) THEN FALSE
    ELSE Exists(f, path)

(***************************************************************************)
(* Initial state: no process has started.  The initial filesystem holds a  *)
(* user file /home/a (when /home exists) with a plaintext, a container     *)
(* made under the first master key, the container with one tag bit         *)
(* flipped, or a truncated container; possibly a stray file at one of its  *)
(* sibling temporary paths; a user file /opt/b (when /opt exists); and     *)
(* possibly a keystore.                                                    *)
(***************************************************************************)
FileA == <<"/home", "/a">>
FileB == <<"/opt", "/b">>

Plaintexts == { [i \in 1..n |-> (7 * i) % 256] : n \in 0..MaxPlain }

Key1 == CHOOSE k \in get_random_bytes(KeyLen) : k[1] = 38
\* The nonce of the containers of the initial filesystem.
Nonce0 == [i \in 1..NonceLen |-> i]

\* One bit of byte i of a file flipped.
FlipBit(bytes, i, bit) ==
    LET w == 2 ^ bit
        b == bytes[i]
    IN  [bytes EXCEPT ![i] = IF (b \div w) % 2 = 1 THEN b - w ELSE b + w]

ValidContainers(path) == { Container(DeriveKey(Key1, path), Nonce0, m) : m \in Plaintexts }
TamperedContainers(path) ==
    { FlipBit(c, NonceLen + 1, 0) : c \in ValidContainers(path) }
        \cup { FlipBit(c, NonceLen + TagLen, 7) : c \in ValidContainers(path) }
TruncatedContainers(path) ==
    { Take(c, n) : c \in ValidContainers(path), n \in {5, NonceLen, NonceLen + TagLen - 1} }

InitContents(path) ==
    Plaintexts \cup ValidContainers(path) \cup TamperedContainers(path)
        \cup TruncatedContainers(path)

EmptyFs == [q \in {} |-> <<>>]
EmptyBuf == [data |-> <<>>, nonce |-> <<>>, tag |-> <<>>, ciphertext |-> <<>>]
NoPrev == [op |-> "none", path |-> <<>>, outcome |-> "none", pre |-> <<>>]
NoCall == [op |-> "none", path |-> <<>>, outcome |-> "none", pre |-> <<>>, prev |-> NoPrev]

Strays == {EmptyFs, Plus(FileA, ".enc") :> <<9>>, Plus(FileA, ".dec") :> <<9>>}

InitFs(d, contents, strays) ==
    { a @@ t @@ b @@ k :
        a \in IF "/home" \in d THEN { FileA :> c : c \in contents } ELSE {EmptyFs},
        t \in IF "/home" \in d THEN strays ELSE {EmptyFs},
        b \in IF "/opt" \in d THEN {FileB :> <<>>} ELSE {EmptyFs},
        k \in {EmptyFs, KEYSTORE :> Key1} }

Procs == 1..NProcs
NotCalled == [pc |-> "start", key |-> <<>>, ret |-> <<>>]

InitProcess ==
    /\ pc = "off"
    /\ kind = "main"
    /\ argv = <<>>
    /\ status = 0
    /\ roots_left = <<>>
    /\ todo = {}
    /\ master_key = <<>>
    /\ key_cache = EmptyFs
    /\ cur = <<>>
    /\ buf = EmptyBuf
    /\ log = <<>>
    /\ log_linked = FALSE
    /\ old = EmptyFs
    /\ last = NoCall
    /\ inits = 0
    /\ runs = 0
    /\ calls = 0
    /\ lost = {}
    /\ faults = 0
    /\ start_fs = EmptyFs
    /\ ks = [i \in Procs |-> NotCalled]

\* The program on a system holding plaintext user files.
Init ==
    /\ dirs \in SUBSET {"/home", "/var", "/opt"}
    /\ fs \in InitFs(dirs, Plaintexts, {EmptyFs})
    /\ InitProcess

\* A client of CryptoEngine on a system where /home/a holds a plaintext, a
\* container, a tampered or a truncated container.
InitEngine ==
    /\ dirs = {"/home", "/var"}
    /\ fs \in InitFs(dirs, InitContents(FileA), Strays)
    /\ InitProcess

(***************************************************************************)
(* Process start: the interpreter runs the module's top level.             *)
(* logging.basicConfig opens CONFIG['logfile'] for appending, which        *)
(* creates it, and fails when its directory does not exist (/var/log is    *)
(* taken to exist exactly when /var does).  The bytes of the log file are  *)
(* not tracked: the events are in log, and the file is the empty file.     *)
(***************************************************************************)
Start(k, args) ==
    /\ pc \in {"off", "exited", "crashed"}
    /\ runs < MaxRuns
    /\ runs' = runs + 1
    /\ kind' = k
    /\ argv' = args
    /\ inits' = 0
    /\ log' = <<>>
    /\ master_key' = <<>>
    /\ key_cache' = EmptyFs
    /\ roots_left' = <<>>
    /\ todo' = {}
    /\ cur' = <<>>
    /\ buf' = EmptyBuf
    /\ IF "/var" \in dirs
       THEN /\ fs' = IF Exists(fs, LOGFILE) THEN fs ELSE WriteFile(fs, LOGFILE, <<>>)
            /\ log_linked' = TRUE
            /\ pc' = IF k = "main" THEN "main" ELSE "client_init"
            /\ status' = 0
       ELSE /\ fs' = fs
            /\ log_linked' = FALSE
            /\ pc' = "exited"
            /\ status' = 1
    /\ start_fs' = fs'
    /\ UNCHANGED <<ks, dirs, old, last, lost, faults, calls>>

StartMain == \E args \in {<<>>, <<"--unlock">>} : Start("main", args)
StartClient == Start("client", <<>>)

\* if __name__ == '__main__'
Main ==
    /\ pc = "main"
    /\ pc' = IF Len(argv) > 0 /\ argv[1] = "--unlock" THEN "unlock" ELSE "lock"
    /\ roots_left' = ROOTS
    /\ UNCHANGED <<fs, ks, dirs, kind, argv, status, todo, master_key, key_cache, cur, buf,
                   log, log_linked, old, last, inits, runs, calls, lost, faults, start_fs>>

\* CryptoEngine._init_keystore, run by one process alone: the key it returns
\* and the filesystem it leaves.
init_keystore(f) ==
    IF Exists(f, KEYSTORE)
    THEN { [key |-> Take(f[KEYSTORE], KeyLen), fs |-> f] }
    ELSE { [key |-> key, fs |-> WriteFile(f, KEYSTORE, key)] : key \in get_random_bytes(KeyLen) }

\* crypto = CryptoEngine()
NewEngine ==
    \E r \in init_keystore(fs) :
        /\ master_key' = r.key
        /\ fs' = r.fs
        /\ key_cache' = EmptyFs
        /\ inits' = inits + 1

\* The body of the for loop of lock_system / unlock_system for one root:
\* process_filesystem(root) up to the first file of os.walk.
RootLoop(here) ==
    /\ pc = here
    /\ IF roots_left = <<>>
       THEN /\ pc' = "exited"
            /\ status' = 0
            /\ UNCHANGED <<fs, roots_left, todo, master_key, key_cache, inits>>
       ELSE /\ roots_left' = Tail(roots_left)
            /\ status' = status
            /\ IF Head(roots_left) \in dirs
               THEN /\ NewEngine
                    /\ todo' = Walk(fs, Head(roots_left))
                    /\ pc' = "walk"
               ELSE /\ pc' = here
                    /\ UNCHANGED <<fs, todo, master_key, key_cache, inits>>
    /\ UNCHANGED <<ks, dirs, kind, argv, cur, buf, log, log_linked, old, last, runs, calls,
                   lost, faults, start_fs>>

lock_system == RootLoop("lock")
unlock_system == RootLoop("unlock")

\* The function the walk returns to.
Entry == IF Len(argv) > 0 /\ argv[1] = "--unlock" THEN "unlock" ELSE "lock"

\* The operation process_filesystem calls on an eligible path.
WalkTransform == "e_read"

\* process_filesystem: one iteration of the loops over os.walk.
process_filesystem ==
    /\ pc = "walk"
    /\ IF todo = {}
       THEN /\ pc' = Entry
            /\ UNCHANGED <<todo, cur, old>>
       ELSE \E path \in todo :
            /\ todo' = todo \ {path}
            /\ IF should_encrypt(fs, path)
               THEN /\ pc' = WalkTransform
                    /\ cur' = path
                    /\ old' = fs
               ELSE /\ pc' = "walk"
                    /\ UNCHANGED <<cur, old>>
    /\ UNCHANGED <<fs, ks, dirs, kind, argv, status, roots_left, master_key, key_cache, buf,
                   log, log_linked, last, inits, runs, calls, lost, faults, start_fs>>

(***************************************************************************)
(* encrypt_file and decrypt_file, one action per statement that touches    *)
(* the filesystem.  io is the outcome of the system call: "ok", or an      *)
(* OSError the environment raises.                                         *)
(***************************************************************************)
\* The environment causes at most MaxFaults I/O errors and kills.
Injected(io) ==
    /\ io /= "ok" => faults < MaxFaults
    /\ faults' = IF io = "ok" THEN faults ELSE faults + 1

\* Where a transform returns to: the walk, or the client that called it.
Return == IF kind = "main" THEN "walk" ELSE "client"

\* Without the except clause the exception ends the process.
ExceptionPropagates == "exited"

\* except Exception as e: logging.error(...), and the method returns.
AfterExcept == Return

PreOf(path) == IF Exists(old, path) THEN old[path] ELSE <<>>

\* The record of a call that returns: what it was, how it ended, the bytes
\* at its path when it was called, and the call that returned before it.
Returned(opname, outcome) ==
    [op |-> opname, path |-> cur, outcome |-> outcome, pre |-> PreOf(cur),
     prev |-> [op |-> last.op, path |-> last.path, outcome |-> last.outcome, pre |-> last.pre]]

Fail(opname, err) ==
    /\ log' = Append(log, [level |-> "ERROR", path |-> cur, msg |-> err])
    /\ last' = Returned(opname, err)
    /\ pc' = AfterExcept
    /\ cur' = <<>>
    /\ buf' = EmptyBuf

Succeed(opname) ==
    /\ log' = Append(log, [level |-> "INFO", path |-> cur, msg |-> opname])
    /\ last' = Returned(opname, "ok")
    /\ pc' = Return
    /\ cur' = <<>>
    /\ buf' = EmptyBuf

Cached(path, key) == [q \in DOMAIN key_cache \cup {path} |-> IF q = path THEN key ELSE key_cache[q]]

\* with open(path, 'rb') as f: data = f.read()
EncRead ==
    /\ pc = "e_read"
    /\ \E io \in {"ok", "error"} :
        /\ Injected(io)
        /\ IF io = "error" \/ ~Exists(fs, cur)
           THEN Fail("encrypt", "IoError")
           ELSE /\ buf' = [EmptyBuf EXCEPT !.data = fs[cur]]
                /\ pc' = "e_crypt"
                /\ UNCHANGED <<log, last, cur>>
    /\ UNCHANGED <<fs, ks, dirs, kind, argv, status, roots_left, todo, master_key, key_cache,
                   log_linked, old, inits, runs, calls, lost, start_fs>>

\* key = self._derive_key(path) ... cipher.encrypt_and_digest(data)
EncCrypt ==
    /\ pc = "e_crypt"
    /\ \E nonce \in get_random_bytes(NonceLen), key \in {derive_key(cur)} :
        \E r \in {encrypt_and_digest(key, nonce, buf.data)} :
            /\ key_cache' = Cached(cur, key)
            /\ buf' = [data |-> buf.data, nonce |-> nonce, tag |-> r.tag,
                       ciphertext |-> r.ciphertext]
    /\ pc' = "e_write"
    /\ UNCHANGED <<fs, ks, dirs, kind, argv, status, roots_left, todo, master_key, cur,
                   log, log_linked, old, last, inits, runs, calls, lost, faults, start_fs>>

\* A container written with the tag before the nonce.
WrittenTagFirst(b) == b.tag \o b.nonce \o b.ciphertext

\* f.write(nonce); f.write(tag); f.write(ciphertext)
WrittenContainer(b) == b.nonce \o b.tag \o b.ciphertext

\* nonce = f.read(12); tag = f.read(16); ciphertext = f.read()
ReadContainer(bytes) ==
    [data |-> <<>>,
     nonce |-> Take(bytes, NonceLen),
     tag |-> Take(Drop(bytes, NonceLen), TagLen),
     ciphertext |-> Drop(Drop(bytes, NonceLen), TagLen)]

\* The temporary file after open(tmp, 'wb') and the writes: an open that
\* fails leaves the filesystem as it was, a write that fails leaves the
\* truncated file.
WriteTemp(tmp, bytes, io) ==
    IF io = "ok" THEN WriteFile(fs, tmp, bytes)
    ELSE IF io = "write_error" THEN WriteFile(fs, tmp, <<>>)
    ELSE fs

\* with open(path + '.enc', 'wb') as f: f.write(nonce); f.write(tag); f.write(ciphertext)
EncWrite ==
    /\ pc = "e_write"
    /\ \E io \in {"ok", "open_error", "write_error"} :
        /\ Injected(io)
        /\ fs' = WriteTemp(Plus(cur, ".enc"), WrittenContainer(buf), io)
        /\ IF io = "ok"
           THEN pc' = "e_remove" /\ UNCHANGED <<log, last, cur, buf>>
           ELSE Fail("encrypt", "IoError")
    /\ UNCHANGED <<ks, dirs, kind, argv, status, roots_left, todo, master_key, key_cache,
                   log_linked, old, inits, runs, calls, lost, start_fs>>

\* os.remove(path).  The logging handler keeps writing to the file it
\* opened, which is no longer the one at the log path once that is removed.
Remove(opname, next) ==
    /\ \E io \in {"ok", "error"} :
        /\ Injected(io)
        /\ IF io = "error" \/ ~Exists(fs, cur)
           THEN Fail(opname, "IoError") /\ UNCHANGED <<fs, log_linked>>
           ELSE /\ fs' = RemoveFile(fs, cur)
                /\ log_linked' = (log_linked /\ cur /= LOGFILE)
                /\ pc' = next
                /\ UNCHANGED <<log, last, cur, buf>>
    /\ UNCHANGED <<ks, dirs, kind, argv, status, roots_left, todo, master_key, key_cache,
                   old, inits, runs, calls, lost, start_fs>>

\* os.rename(path + suffix, path); logging.info(...)
Rename(opname, suffix) ==
    /\ \E io \in {"ok", "error"} :
        /\ Injected(io)
        /\ IF io = "error" \/ ~Exists(fs, Plus(cur, suffix))
           THEN Fail(opname, "IoError") /\ UNCHANGED fs
           ELSE /\ fs' = RenameFile(fs, Plus(cur, suffix), cur)
                /\ Succeed(opname)
    /\ UNCHANGED <<ks, dirs, kind, argv, status, roots_left, todo, master_key, key_cache,
                   log_linked, old, inits, runs, calls, lost, start_fs>>

EncRemove == pc = "e_remove" /\ Remove("encrypt", "e_rename")
EncRename == pc = "e_rename" /\ Rename("encrypt", ".enc")

\* with open(path, 'rb') as f: nonce = f.read(12); tag = f.read(16); ciphertext = f.read()
DecRead ==
    /\ pc = "d_read"
    /\ \E io \in {"ok", "error"} :
        /\ Injected(io)
        /\ IF io = "error" \/ ~Exists(fs, cur)
           THEN Fail("decrypt", "IoError")
           ELSE /\ buf' = ReadContainer(fs[cur])
                /\ pc' = "d_crypt"
                /\ UNCHANGED <<log, last, cur>>
    /\ UNCHANGED <<fs, ks, dirs, kind, argv, status, roots_left, todo, master_key, key_cache,
                   log_linked, old, inits, runs, calls, lost, start_fs>>

\* key = self._derive_key(path) ... data = cipher.decrypt_and_verify(ciphertext, tag).
\* AES.new refuses an empty nonce (ValueError); a tag that does not verify
\* is ValueError("MAC check failed"), the AuthenticationFailed outcome.
DecVerify ==
    /\ pc = "d_crypt"
    /\ \E key \in {derive_key(cur)} :
        \E r \in {decrypt_and_verify(key, buf.nonce, buf.ciphertext, buf.tag)} :
            /\ key_cache' = Cached(cur, key)
            /\ IF buf.nonce = <<>> THEN Fail("decrypt", "ValueError")
               ELSE IF ~r.ok THEN Fail("decrypt", "AuthenticationFailed")
               ELSE /\ buf' = [buf EXCEPT !.data = r.data]
                    /\ pc' = "d_write"
                    /\ UNCHANGED <<log, last, cur>>
    /\ UNCHANGED <<fs, ks, dirs, kind, argv, status, roots_left, todo, master_key,
                   log_linked, old, inits, runs, calls, lost, faults, start_fs>>

\* with open(path + '.dec', 'wb') as f: f.write(data)
DecWrite ==
    /\ pc = "d_write"
    /\ \E io \in {"ok", "open_error", "write_error"} :
        /\ Injected(io)
        /\ fs' = WriteTemp(Plus(cur, ".dec"), buf.data, io)
        /\ IF io = "ok"
           THEN pc' = "d_remove" /\ UNCHANGED <<log, last, cur, buf>>
           ELSE Fail("decrypt", "IoError")
    /\ UNCHANGED <<ks, dirs, kind, argv, status, roots_left, todo, master_key, key_cache,
                   log_linked, old, inits, runs, calls, lost, start_fs>>

DecRemove == pc = "d_remove" /\ Remove("decrypt", "d_rename")
DecRename == pc = "d_rename" /\ Rename("decrypt", ".dec")

(***************************************************************************)
(* A client of the module: it constructs a CryptoEngine and calls          *)
(* encrypt_file and decrypt_file on paths of its choice.                   *)
(***************************************************************************)
ClientPaths == {FileA}

ClientInit ==
    /\ pc = "client_init"
    /\ NewEngine
    /\ pc' = "client"
    /\ UNCHANGED <<ks, dirs, kind, argv, status, roots_left, todo, cur, buf, log, log_linked,
                   old, last, runs, calls, lost, faults, start_fs>>

ClientCall(first) ==
    /\ pc = "client"
    /\ calls < MaxCalls
    /\ \E path \in ClientPaths :
        /\ cur' = path
        /\ old' = fs
        /\ pc' = first
        /\ calls' = calls + 1
    /\ UNCHANGED <<fs, ks, dirs, kind, argv, status, roots_left, todo, master_key, key_cache,
                   buf, log, log_linked, last, inits, runs, lost, faults, start_fs>>

ClientEncrypt == ClientCall("e_read")
ClientDecrypt == ClientCall("d_read")

ClientExit ==
    /\ pc = "client"
    /\ pc' = "exited"
    /\ status' = 0
    /\ UNCHANGED <<fs, ks, dirs, kind, argv, roots_left, todo, master_key, key_cache, cur,
                   buf, log, log_linked, old, last, inits, runs, calls, lost, faults, start_fs>>

\* The process is killed.  Between os.remove and os.rename there is no file
\* at the path being transformed.
Running == {"main", "lock", "unlock", "walk", "client_init", "client",
            "e_read", "e_crypt", "e_write", "e_remove", "e_rename",
            "d_read", "d_crypt", "d_write", "d_remove", "d_rename"}

Crash ==
    /\ pc \in Running
    /\ faults < MaxFaults
    /\ faults' = faults + 1
    /\ pc' = "crashed"
    /\ status' = 137
    /\ lost' = IF pc \in {"e_rename", "d_rename"} THEN lost \cup {cur} ELSE lost
    /\ UNCHANGED <<fs, ks, dirs, kind, argv, roots_left, todo, master_key, key_cache, cur,
                   buf, log, log_linked, old, last, inits, runs, calls, start_fs>>

Transform ==
    \/ EncRead
    \/ EncCrypt
    \/ EncWrite
    \/ EncRemove
    \/ EncRename

\* The script run as a program, killed at any point and run again.
Next ==
    \/ StartMain
    \/ Main
    \/ lock_system
    \/ unlock_system
    \/ process_filesystem
    \/ Transform
    \/ Crash

Spec == Init /\ [][Next]_vars

(***************************************************************************)
(* _init_keystore called by several processes at once, one action per      *)
(* system call.  The keystore file is shared; each process has its own     *)
(* position, the key it generated and the key it returned.                 *)
(***************************************************************************)
KsFrame == UNCHANGED <<dirs, pc, kind, argv, status, roots_left, todo, master_key, key_cache,
                       cur, buf, log, log_linked, old, last, inits, runs, calls, lost,
                       faults, start_fs>>

\* open(CONFIG['keystore'], 'rb'): FileNotFoundError when there is no file.
KsOpen(i) ==
    /\ ks[i].pc = "start"
    /\ ks' = [ks EXCEPT ![i].pc = IF Exists(fs, KEYSTORE) THEN "read" ELSE "generate"]
    /\ UNCHANGED fs
    /\ KsFrame

\* return f.read(32)
KsRead(i) ==
    /\ ks[i].pc = "read"
    /\ ks' = [ks EXCEPT ![i].pc = "done", ![i].ret = Take(fs[KEYSTORE], KeyLen)]
    /\ UNCHANGED fs
    /\ KsFrame

\* key = get_random_bytes(32)
KsGenerate(i) ==
    /\ ks[i].pc = "generate"
    /\ \E key \in get_random_bytes(KeyLen) :
        ks' = [ks EXCEPT ![i].pc = "create", ![i].key = key]
    /\ UNCHANGED fs
    /\ KsFrame

\* open(CONFIG['keystore'], 'wb'): the file is created, or truncated.
KsCreate(i) ==
    /\ ks[i].pc = "create"
    /\ fs' = WriteFile(fs, KEYSTORE, <<>>)
    /\ ks' = [ks EXCEPT ![i].pc = "write"]
    /\ KsFrame

\* f.write(key), flushed when the with block closes the file.
KsWrite(i) ==
    /\ ks[i].pc = "write"
    /\ fs' = WriteFile(fs, KEYSTORE, ks[i].key)
    /\ ks' = [ks EXCEPT ![i].pc = "chmod"]
    /\ KsFrame

\* os.chmod(CONFIG['keystore'], 0o600); return key
KsReturn(i) ==
    /\ ks[i].pc = "chmod"
    /\ ks' = [ks EXCEPT ![i].pc = "done", ![i].ret = ks[i].key]
    /\ UNCHANGED fs
    /\ KsFrame

InitKeystore ==
    /\ dirs = {}
    /\ fs = EmptyFs
    /\ InitProcess

NextKeystore ==
    \E i \in Procs :
        \/ KsOpen(i)
        \/ KsRead(i)
        \/ KsGenerate(i)
        \/ KsCreate(i)
        \/ KsWrite(i)
        \/ KsReturn(i)

SpecKeystore == InitKeystore /\ [][NextKeystore]_vars

\* Client processes calling the two methods of CryptoEngine.

NextEngine ==
    \/ StartClient
    \/ ClientInit
    \/ ClientEncrypt
    \/ ClientDecrypt
    \/ ClientExit
    \/ Transform
    \/ DecRead
    \/ DecVerify
    \/ DecWrite
    \/ DecRemove
    \/ DecRename

SpecEngine == InitEngine /\ [][NextEngine]_vars

(***************************************************************************)
(* Properties of decrypt_file and encrypt_file as a client calls them      *)
(* (SpecEngine).                                                           *)
(***************************************************************************)
TransformPcs == {"e_read", "e_crypt", "e_write", "e_remove", "e_rename",
                 "d_read", "d_crypt", "d_write", "d_remove", "d_rename"}

\* No transform is running: last is the call that returned last, old the
\* filesystem it was called on, and fs the filesystem it left.
AtRest == pc \notin TransformPcs

\* The bytes do not verify as a container under the key of the path: there
\* is a nonce, and the tag read is not the tag of the ciphertext read.
FailsVerification(master, path, bytes) ==
    LET c == ReadContainer(bytes)
    IN  /\ c.nonce /= <<>>
        /\ c.tag /= GCM_tag(DeriveKey(master, path), c.nonce, c.ciphertext)

\* C1: when decrypt_file is about to verify a file whose content fails tag
\* verification under the key of its path, nothing has been written, removed
\* or renamed since the call (the filesystem is the one of the call), and the
\* step ends the call with the AuthenticationFailed outcome, logged as an
\* error, leaving the filesystem, the temporary path included, as it was.
C1_TagMismatchLeavesFile ==
    [][ ( /\ pc = "d_crypt"
          /\ Exists(old, cur)
          /\ FailsVerification(master_key, cur, old[cur]) )
        => ( /\ fs = old
             /\ fs' = old
             /\ pc' = Return
             /\ last'.op = "decrypt"
             /\ last'.path = cur
             /\ last'.outcome = "AuthenticationFailed"
             /\ log' = Append(log, [level |-> "ERROR", path |-> cur,
                                    msg |-> "AuthenticationFailed"]) ) ]_vars

\* decrypt_file has returned AuthenticationFailed on a container with one tag
\* bit flipped, and the file still holds the tampered container.
C1_Witness ==
    /\ AtRest
    /\ last.op = "decrypt"
    /\ last.outcome = "AuthenticationFailed"
    /\ last.pre \in TamperedContainers(last.path)
    /\ fs = old
    /\ fs[last.path] = last.pre

\* The last two calls were a successful encrypt_file(p) and then
\* decrypt_file(p).
RoundTrip ==
    /\ last.op = "decrypt"
    /\ last.prev.op = "encrypt"
    /\ last.prev.outcome = "ok"
    /\ last.prev.path = last.path

\* C2: when decrypt_file(p) returns after a successful encrypt_file(p), it
\* has not failed verification (it ended ok unless the environment made a
\* system call fail), and when it ended ok the file at p holds the bytes it
\* held before the encryption and neither p + '.enc' nor p + '.dec' exists.
C2_RoundTrip ==
    (AtRest /\ RoundTrip) =>
        /\ last.outcome \in {"ok", "IoError"}
        /\ last.outcome = "ok" =>
            /\ Exists(fs, last.path)
            /\ fs[last.path] = last.prev.pre
            /\ ~Exists(fs, Plus(last.path, ".enc"))
            /\ ~Exists(fs, Plus(last.path, ".dec"))

\* A round trip of a non-empty plaintext has ended ok.
C2_Witness ==
    /\ AtRest
    /\ RoundTrip
    /\ last.outcome = "ok"
    /\ last.prev.pre /= <<>>
    /\ fs[last.path] = last.prev.pre

\* A round trip of the empty plaintext has ended ok: the container was 28 bytes.
C2_WitnessEmpty ==
    /\ AtRest
    /\ RoundTrip
    /\ last.outcome = "ok"
    /\ last.prev.pre = <<>>
    /\ Len(last.pre) = NonceLen + TagLen
    /\ fs[last.path] = <<>>

\* C5: decrypt_file never reaches the AEAD step on a file shorter than the
\* 28-byte header, and a call on such a file that was read ends with the
\* MalformedContainer outcome and leaves the filesystem unchanged.
C5_ShortContainerRejected ==
    /\ (pc = "d_crypt" /\ Exists(old, cur)) => Len(old[cur]) >= NonceLen + TagLen
    /\ ( /\ AtRest
         /\ last.op = "decrypt"
         /\ Exists(old, last.path)
         /\ Len(last.pre) < NonceLen + TagLen
         /\ last.outcome /= "IoError" )
       => (last.outcome = "MalformedContainer" /\ fs = old)

\* What the code does on a short file: the call ends in an error of the AEAD
\* step (no nonce, or a tag that does not verify) and the file is unchanged.
C5_ShortContainerFailsInAead ==
    ( /\ AtRest
      /\ last.op = "decrypt"
      /\ Exists(old, last.path)
      /\ Len(last.pre) < NonceLen + TagLen
      /\ last.outcome /= "IoError" )
    => (last.outcome \in {"ValueError", "AuthenticationFailed"} /\ fs = old)

\* C9: after a successful transform of p the same paths exist as when it was
\* called, and every file other than the one at p has the bytes it had.
C9_Frame ==
    (AtRest /\ last.outcome = "ok") =>
        /\ DOMAIN fs = DOMAIN old
        /\ \A q \in DOMAIN fs \ {last.path} : fs[q] = old[q]

\* The frame holds when nothing was at the temporary path of the call.
C9_FrameWithoutStray ==
    ( /\ AtRest
      /\ last.outcome = "ok"
      /\ ~Exists(old, Plus(last.path, IF last.op = "encrypt" THEN ".enc" ELSE ".dec")) )
    => /\ DOMAIN fs = DOMAIN old
       /\ \A q \in DOMAIN fs \ {last.path} : fs[q] = old[q]

(***************************************************************************)
(* Properties of the program: lock and unlock runs, killed and run again   *)
(* (Spec, and SpecFair for what a run eventually does).                    *)
(***************************************************************************)
\* A process that is not killed takes its next step.
SpecFair ==
    Spec /\ WF_vars(Main \/ lock_system \/ unlock_system \/ process_filesystem \/ Transform)

EncPcs == {"e_read", "e_crypt", "e_write", "e_remove", "e_rename"}
DecPcs == {"d_read", "d_crypt", "d_write", "d_remove", "d_rename"}

\* C3: a run without arguments has the walk call encrypt_file, and a run
\* with --unlock has it call decrypt_file.
C3_EntryPointsSelect ==
    (kind = "main" /\ pc \in TransformPcs) =>
        IF Entry = "unlock" THEN pc \in DecPcs ELSE pc \in EncPcs

\* The files the walk of this run is to transform: those under an existing
\* root that were eligible when the process started.
Eligible == { p \in DOMAIN start_fs : /\ \E r \in dirs : Under(p, r)
                                      /\ should_encrypt(start_fs, p) }

\* A transform of this run failed, and a later one, on another file, succeeded.
FailedThenWentOn ==
    \E i, j \in DOMAIN log :
        /\ i < j
        /\ log[i].level = "ERROR"
        /\ log[j].level = "INFO"
        /\ log[j].path /= log[i].path

C7_InitKeystoreOnce == inits <= 1

\* C8: once a process has died between os.remove and os.rename of a
\* transform, no file exists at the path of that transform, then or in any
\* later state of this or of a following run.
C8_LostForever == \A p \in lost : ~Exists(fs, p)

\* What the code does: every path lost this way stays without a file, except
\* the log path, which the next process creates again when it opens its log.
C8_LostForeverExceptLog == \A p \in lost \ {LOGFILE} : ~Exists(fs, p)

\* C10: no transform is ever called on the keystore path or on the log
\* path, and the stream the events of a running process are appended to is
\* the file at the log path.
C10_OwnFilesUntouched ==
    /\ pc \in TransformPcs => cur \notin {KEYSTORE, LOGFILE}
    /\ pc \in Running => log_linked

\* What the code does: the keystore path is never transformed.
C10_KeystoreUntouched == pc \in TransformPcs => cur /= KEYSTORE

(***************************************************************************)
(* Properties of the keystore under concurrent callers (SpecKeystore).     *)
(***************************************************************************)
AllReturned == \A i \in Procs : ks[i].pc = "done"

\* C6: starting without a keystore, at most one caller ever generates and
\* writes a key, and once every caller has returned, each has returned the
\* same 32 bytes, which are the content of the keystore file.
C6_OneMasterKey ==
    AllReturned =>
        /\ Cardinality({ i \in Procs : ks[i].key /= <<>> }) <= 1
        /\ \A i \in Procs : /\ Len(ks[i].ret) = KeyLen
                            /\ ks[i].ret = fs[KEYSTORE]

====
